---- MODULE Spec2Model ----
(***************************************************************************)
(* Model of the Gemini market-data client (src/src/main.rs).               *)
(*                                                                         *)
(* Event::new decodes one raw frame into a MarketMessage or panics; the    *)
(* closure given to read.for_each dispatches the decoded events one at a   *)
(* time, updating the shared BestBidOffer under its mutex and handing one  *)
(* report per Trade / Quote to tokio's stdout, whose blocking pool writes  *)
(* the lines.                                                              *)
(*                                                                         *)
(* Representation.                                                         *)
(*  - A text is a sequence of one-character strings (<<"b","i","d">>).     *)
(*  - A serde_json Value is a record [t, v]: t is the JSON type and v the  *)
(*    payload (a text, a number record, a sequence of Values, or a         *)
(*    function from keys to Values).                                       *)
(*  - An f64 is an IEEE 754 binary64 [k, neg, m, e]: k = "fin" stands for  *)
(*    (-1)^neg * m * 2^e, with m of 53 bits (fewer only at e = -1074, the  *)
(*    subnormals; zero is m = 0, e = 0); k = "inf" / "nan" are the         *)
(*    specials.  Parsing and multiplying round to nearest, ties to even.   *)
(*  - A wire integer is a little-endian sequence of 16-bit limbs, so that  *)
(*    64-bit values stay inside the integer range of TLC.                  *)
(*  - A raw payload that is a JSON document is the tree of its values as   *)
(*    written on the wire; FromSlice is the reader, which fails on a tree  *)
(*    with a number out of the range of f64 or 128 levels of nesting.      *)
(***************************************************************************)
EXTENDS Integers, Sequences, FiniteSets, TLC

VARIABLES
    pc,       \* position of the processing loop (the closure of read.for_each)
    nrecv,    \* number of frames the transport has delivered so far
    data,     \* raw payload of the frame being handled (m.into_data())
    event,    \* result of Event::new(data): a MarketMessage or a panic
    i,        \* index in event.events of the element the for loop is at
    bbo,      \* the BestBidOffer behind the mutex
    lock,     \* state of the mutex: "free", or "main" while a guard is alive
    msg,      \* the formatted report about to be written
    sent,     \* the reports handed to tokio::io::stdout(), oldest first
    queued,   \* indices of sent whose blocking write has not run yet
    out,      \* the lines that have reached stdout, oldest first
    panic,    \* why the program panicked ("" while it has not)
    applied,  \* history: the Quotes whose side match has completed
    pre,      \* history: bbo when the current Quote was taken from the batch
    start     \* history: bbo, Len(sent) and applied when the current frame arrived

vars == <<pc, nrecv, data, event, i, bbo, lock, msg, sent, queued, out, panic,
          applied, pre, start>>

-----------------------------------------------------------------------------
\* Bounds of the model.

\* Frames the transport delivers before the model stops it.
MaxMsgs == 2
\* Largest number of elements of a wire `events` array in the decoder inputs.
MaxEvents == 2

-----------------------------------------------------------------------------
\* Option<T>

None == [some |-> FALSE]
Some(x) == [some |-> TRUE, v |-> x]

-----------------------------------------------------------------------------
\* Natural numbers beyond the integer range of TLC: little-endian sequences
\* of 15-bit limbs without a leading zero limb; <<>> is 0.

LimbBits == 15
Limb == 2^LimbBits

\* The operators below name an intermediate result x of value v by
\*     CHOOSE r \in {e(x) : x \in {v}} : TRUE
\* which is e(v) with v computed once, however often e uses x (a definition
\* of a LET is computed anew at each use where TLC evaluates ENABLED).

\* a without its leading zero limbs
BigTrim(a) ==
    LET set == {j \in 1..Len(a) : a[j] # 0}
    IN  IF set = {} THEN <<>>
        ELSE SubSeq(a, 1, CHOOSE j \in set : \A n \in set : n <= j)

RECURSIVE BigOf(_)
BigOf(n) == IF n = 0 THEN <<>> ELSE <<n % Limb>> \o BigOf(n \div Limb)

RECURSIVE MulAddLimbs(_, _, _)
\* the Len(a) low limbs of a * s + c, and the carry out of them
MulAddLimbs(a, s, c) ==
    IF Len(a) = 1
    THEN LET t == a[1] * s + c
         IN  [limbs |-> <<t % Limb>>, carry |-> t \div Limb]
    ELSE LET h  == Len(a) \div 2
             lo == MulAddLimbs(SubSeq(a, 1, h), s, c)
         IN  IF lo.carry = 0
             THEN LET hi == MulAddLimbs(SubSeq(a, h + 1, Len(a)), s, 0)
                  IN  [limbs |-> lo.limbs \o hi.limbs, carry |-> hi.carry]
             ELSE LET hi == MulAddLimbs(SubSeq(a, h + 1, Len(a)), s, lo.carry)
                  IN  [limbs |-> lo.limbs \o hi.limbs, carry |-> hi.carry]

\* a * s + c for 0 < s < Limb and 0 <= c < Limb
BigMulAdd(a, s, c) ==
    IF Len(a) = 0 THEN (IF c = 0 THEN <<>> ELSE <<c>>)
    ELSE CHOOSE res \in
             {IF r.carry = 0 THEN r.limbs ELSE r.limbs \o <<r.carry>> :
                 r \in {MulAddLimbs(a, s, c)}} : TRUE

RECURSIVE BigAdd(_, _, _)
\* a + b + c for c in 0..1
BigAdd(a, b, c) ==
    IF Len(a) = 0 /\ Len(b) = 0 THEN (IF c = 0 THEN <<>> ELSE <<c>>)
    ELSE LET x == IF Len(a) = 0 THEN 0 ELSE a[1]
             y == IF Len(b) = 0 THEN 0 ELSE b[1]
             t == x + y + c
         IN  <<t % Limb>> \o BigAdd(IF Len(a) = 0 THEN a ELSE Tail(a),
                                    IF Len(b) = 0 THEN b ELSE Tail(b),
                                    t \div Limb)

RECURSIVE BigMul(_, _)
BigMul(a, b) ==
    IF Len(a) = 0 \/ Len(b) = 0 THEN <<>>
    ELSE CHOOSE res \in
             {BigAdd(row, IF Len(rest) = 0 THEN <<>> ELSE <<0>> \o rest, 0) :
                 row \in {IF b[1] = 0 THEN <<>> ELSE BigMulAdd(a, b[1], 0)},
                 rest \in {BigMul(a, Tail(b))}} : TRUE

RECURSIVE DivRemLimbs(_, _, _)
\* the limbs of the quotient of r * Limb^Len(a) + a by d, and the remainder,
\* for 0 <= r < d < Limb
DivRemLimbs(a, d, r) ==
    IF Len(a) = 1
    THEN LET t == r * Limb + a[1]
         IN  [q |-> <<t \div d>>, r |-> t % d]
    ELSE LET h  == Len(a) \div 2
             hi == DivRemLimbs(SubSeq(a, h + 1, Len(a)), d, r)
         IN  IF hi.r = 0
             THEN LET lo == DivRemLimbs(SubSeq(a, 1, h), d, 0)
                  IN  [q |-> lo.q \o hi.q, r |-> lo.r]
             ELSE LET lo == DivRemLimbs(SubSeq(a, 1, h), d, hi.r)
                  IN  [q |-> lo.q \o hi.q, r |-> lo.r]

\* quotient and remainder of a by d, 0 < d < Limb
BigDivRem(a, d) ==
    IF Len(a) = 0 THEN [q |-> <<>>, r |-> 0]
    ELSE CHOOSE res \in
             {[q |-> BigTrim(x.q), r |-> x.r] : x \in {DivRemLimbs(a, d, 0)}} :
             TRUE

\* a * 2^k
BigShl(a, k) ==
    IF Len(a) = 0 THEN <<>>
    ELSE [j \in 1..(k \div LimbBits) |-> 0] \o BigMulAdd(a, 2^(k % LimbBits), 0)

\* floor(a / 2^k)
BigShr(a, k) ==
    IF k \div LimbBits >= Len(a) THEN <<>>
    ELSE BigDivRem(SubSeq(a, (k \div LimbBits) + 1, Len(a)),
                   2^(k % LimbBits)).q

RECURSIVE BitsOf(_)
BitsOf(n) == IF n = 0 THEN 0 ELSE 1 + BitsOf(n \div 2)

\* number of bits of a
BitLen(a) ==
    IF Len(a) = 0 THEN 0 ELSE LimbBits * (Len(a) - 1) + BitsOf(a[Len(a)])

\* bit j of a (bit 0 is the lowest)
BigBit(a, j) ==
    IF j \div LimbBits >= Len(a) THEN 0
    ELSE (a[(j \div LimbBits) + 1] \div 2^(j % LimbBits)) % 2

\* one of the bits 0 .. j-1 of a is set
LowBits(a, j) ==
    \/ \E n \in 1..Len(a) : n <= j \div LimbBits /\ a[n] # 0
    \/ /\ j \div LimbBits < Len(a)
       /\ a[(j \div LimbBits) + 1] % 2^(j % LimbBits) # 0

RECURSIVE BigMulPow10(_, _)
\* a * 10^n
BigMulPow10(a, n) ==
    IF n = 0 \/ Len(a) = 0 THEN a
    ELSE IF n <= 4 THEN BigMulAdd(a, 10^n, 0)
    ELSE LET half == BigMulPow10(a, n \div 2)
         IN  IF Len(half) = 0 THEN half ELSE BigMulPow10(half, n - n \div 2)

RECURSIVE BigDivPow10(_, _)
\* floor(a / 10^n), and whether the division left a remainder
BigDivPow10(a, n) ==
    IF n = 0 \/ Len(a) = 0 THEN [q |-> a, sticky |-> FALSE]
    ELSE IF n <= 4
    THEN LET x == BigDivRem(a, 10^n) IN [q |-> x.q, sticky |-> x.r # 0]
    ELSE LET one == BigDivPow10(a, n \div 2)
         IN  IF Len(one.q) = 0 THEN [q |-> <<>>, sticky |-> TRUE]
             ELSE LET two == BigDivPow10(one.q, n - n \div 2)
                  IN  [q |-> two.q, sticky |-> one.sticky \/ two.sticky]

-----------------------------------------------------------------------------
\* f64

F64(k, neg, m, e) == [k |-> k, neg |-> neg, m |-> m, e |-> e]
SignedZero(neg) == F64("fin", neg, <<>>, 0)
Zero == SignedZero(FALSE)
NaN == F64("nan", FALSE, <<>>, 0)
Inf(neg) == F64("inf", neg, <<>>, 0)

\* The f64 nearest to (-1)^neg * (q + f) * 2^(-s), ties to even, where
\* 0 <= f < 1 and sticky says f > 0 (q then has 55 bits or more): above the
\* largest finite value the result is an infinity, and below the smallest
\* subnormal the precision runs out into a zero.
RoundF64(neg, q, s, sticky) ==
    LET x     == BitLen(q) - 1 - s
        u     == IF x - 52 > -1074 THEN x - 52 ELSE -1074
        drop  == s + u
        half  == drop > 0 /\ BigBit(q, drop - 1) = 1
        rest  == sticky \/ (drop > 1 /\ LowBits(q, drop - 1))
        Up(m0) ==
            IF half /\ (rest \/ (Len(m0) > 0 /\ m0[1] % 2 = 1))
            THEN BigAdd(m0, <<1>>, 0)
            ELSE m0
        Pack(m1) ==
            IF Len(m1) = 0 THEN SignedZero(neg)
            ELSE IF BitLen(m1) > 53
            THEN IF u + 1 > 971 THEN Inf(neg)
                 ELSE F64("fin", neg, BigShr(m1, 1), u + 1)
            ELSE IF u > 971 THEN Inf(neg)
            ELSE F64("fin", neg, m1, u)
    IN  IF Len(q) = 0 THEN SignedZero(neg)
        ELSE IF x > 1023 THEN Inf(neg)
        ELSE CHOOSE res \in
                 {Pack(m1) :
                     m1 \in {Up(m0) :
                         m0 \in {IF drop <= 0 THEN BigShl(q, 0 - drop)
                                 ELSE BigShr(q, drop)}}} : TRUE

\* The f64 nearest to the decimal (-1)^neg * mant * 10^exp.
DecimalToF64(neg, mant, exp) ==
    LET bl == BitLen(mant)
    IN  IF bl = 0 THEN SignedZero(neg)
        ELSE IF ((bl - 1) * 30102) \div 100000 + exp > 310 THEN Inf(neg)
        ELSE IF (bl * 30103) \div 100000 + 1 + exp < -330 THEN SignedZero(neg)
        ELSE IF exp >= 0 THEN RoundF64(neg, BigMulPow10(mant, exp), 0, FALSE)
        ELSE LET k    == 0 - exp
                 s0   == 57 + (k * 33220) \div 10000 - bl
                 s    == IF s0 > 0 THEN s0 ELSE 0
                 quot == BigDivPow10(BigShl(mant, s), k)
             IN  RoundF64(neg, quot.q, s, quot.sticky)

\* the value of the literal with the digits m and the exponent e
Normalize(neg, m, e) == DecimalToF64(neg, BigOf(m), e)

\* a * b on f64 (t.amount * t.price)
MulF64(a, b) ==
    IF a.k = "nan" \/ b.k = "nan" THEN NaN
    ELSE IF a.k = "inf" \/ b.k = "inf"
         THEN IF (a.k = "fin" /\ a.m = <<>>) \/ (b.k = "fin" /\ b.m = <<>>)
              THEN NaN
              ELSE Inf(a.neg # b.neg)
    ELSE CHOOSE res \in
             {RoundF64(a.neg # b.neg, q, 0 - (a.e + b.e), FALSE) :
                 q \in {BigMul(a.m, b.m)}} : TRUE

-----------------------------------------------------------------------------
\* str::parse::<f64>()
\*   Float  ::= Sign? ( 'inf' | 'infinity' | 'nan' | Number )   (any case)
\*   Number ::= ( Digit+ | Digit+ '.' Digit* | Digit* '.' Digit+ ) Exp?
\*   Exp    ::= 'e' Sign? Digit+                                 (any case)

DigitVal ==
    ("0" :> 0) @@ ("1" :> 1) @@ ("2" :> 2) @@ ("3" :> 3) @@ ("4" :> 4) @@
    ("5" :> 5) @@ ("6" :> 6) @@ ("7" :> 7) @@ ("8" :> 8) @@ ("9" :> 9)

IsDigit(c) == c \in DOMAIN DigitVal

\* ASCII lower-casing of the letters that occur in inf / infinity / nan / e.
LowerChar(c) ==
    CASE c = "I" -> "i" [] c = "N" -> "n" [] c = "F" -> "f" [] c = "T" -> "t"
      [] c = "Y" -> "y" [] c = "A" -> "a" [] c = "E" -> "e" [] OTHER -> c

Lower(s) == [j \in 1..Len(s) |-> LowerChar(s[j])]

\* number of leading digits of s
DigitRun(s) ==
    LET other == {j \in 1..Len(s) : ~IsDigit(s[j])}
    IN  IF other = {} THEN Len(s)
        ELSE (CHOOSE j \in other : \A n \in other : j <= n) - 1

RECURSIVE DigitsToBig(_)
\* the digits of the mantissa, as a number
DigitsToBig(s) ==
    IF Len(s) = 0 THEN <<>>
    ELSE IF Len(s) = 1 THEN BigOf(DigitVal[s[1]])
    ELSE LET h == Len(s) \div 2
         IN  BigAdd(BigMulPow10(DigitsToBig(SubSeq(s, 1, h)), Len(s) - h),
                    DigitsToBig(SubSeq(s, h + 1, Len(s))), 0)

RECURSIVE DigitsToNat(_)
\* the digits of the exponent, as a number, read from left to right: a digit
\* is taken in while the number read so far is below 0x10000, and is passed
\* over once it is not (dec2flt: `if exponent < 0x10000 { exponent = 10 *
\* exponent + digit }`)
DigitsToNat(s) ==
    IF Len(s) = 0 THEN 0
    ELSE LET p == DigitsToNat(SubSeq(s, 1, Len(s) - 1))
         IN  IF p < 65536 THEN 10 * p + DigitVal[s[Len(s)]] ELSE p

Drop(s, n) == SubSeq(s, n + 1, Len(s))

HasSign(s) == Len(s) > 0 /\ s[1] \in {"+", "-"}

\* Exp?: None when r is neither empty nor a well-formed exponent
ParseExp(r) ==
    IF Len(r) = 0 THEN Some(0)
    ELSE IF LowerChar(r[1]) # "e" THEN None
    ELSE LET r1 == Tail(r)
             r2 == IF HasSign(r1) THEN Tail(r1) ELSE r1
             n  == DigitRun(r2)
             x  == DigitsToNat(SubSeq(r2, 1, n))
         IN  IF n = 0 \/ n # Len(r2) THEN None
             ELSE Some(IF HasSign(r1) /\ r1[1] = "-" THEN 0 - x ELSE x)

ParseNumber(neg, r) ==
    LET n1   == DigitRun(r)
        r1   == Drop(r, n1)
        dot  == Len(r1) > 0 /\ r1[1] = "."
        r2   == IF dot THEN Tail(r1) ELSE r1
        n2   == IF dot THEN DigitRun(r2) ELSE 0
        r3   == Drop(r2, n2)
        ex   == ParseExp(r3)
        mant == DigitsToBig(SubSeq(r, 1, n1) \o SubSeq(r2, 1, n2))
    IN  IF n1 + n2 = 0 \/ ~ex.some THEN None
        ELSE Some(DecimalToF64(neg, mant, ex.v - n2))

ParseF64(s) ==
    LET neg == HasSign(s) /\ s[1] = "-"
        r   == IF HasSign(s) THEN Tail(s) ELSE s
        l   == Lower(r)
    IN  IF l = <<"i", "n", "f">> \/ l = <<"i", "n", "f", "i", "n", "i", "t", "y">>
        THEN Some(Inf(neg))
        ELSE IF l = <<"n", "a", "n">> THEN Some(NaN)
        ELSE ParseNumber(neg, r)

-----------------------------------------------------------------------------
\* serde_json::Value

Null == [t |-> "null", v |-> 0]
JBool(b) == [t |-> "bool", v |-> b]
JStr(s) == [t |-> "str", v |-> s]
JArr(a) == [t |-> "arr", v |-> a]
\* n >= 1 arrays, each the only element of the one around it and the
\* innermost empty, kept as their number ("[[[]]]" is Nested(3))
Nested(n) == [t |-> "nested", v |-> n]
JObj(o) == [t |-> "obj", v |-> o]
\* Number: n is serde_json's N::PosInt, N::NegInt or N::Float; for PosInt,
\* limbs is the u64 in four little-endian 16-bit limbs.
JPosInt(limbs) == [t |-> "num", v |-> [n |-> "PosInt", limbs |-> limbs]]
JNegInt == [t |-> "num", v |-> [n |-> "NegInt", limbs |-> <<>>]]
\* a literal with a fraction or an exponent, within the range of f64
JFloat == [t |-> "num", v |-> [n |-> "Float", limbs |-> <<>>]]
\* An integer literal above u64::MAX does not fit N::PosInt: from_slice reads
\* it as N::Float when its value is within the range of f64, and fails on it
\* when it is not (LongInteger below).  limbs is the integer of the literal
\* in little-endian 16-bit limbs (five or more, the last one not 0), which
\* no accessor of the program looks at.
JBigInt(limbs) == [t |-> "num", v |-> [n |-> "Float", limbs |-> limbs]]
\* A literal with a fraction or an exponent whose magnitude is beyond the
\* range of f64, such as 1e400: no Value, from_slice fails on it.
JOutOfRange == [t |-> "num", v |-> [n |-> "OutOfRange", limbs |-> <<>>]]

\* value[key]: Null unless value is an object that has the key
Index(value, key) ==
    IF value.t = "obj" /\ key \in DOMAIN value.v THEN value.v[key] ELSE Null

AsStr(value) == IF value.t = "str" THEN Some(value.v) ELSE None
AsArray(value) ==
    IF value.t = "arr" THEN Some(value.v)
    ELSE IF value.t = "nested"
    THEN Some(IF value.v = 1 THEN <<>> ELSE <<Nested(value.v - 1)>>)
    ELSE None
AsU64(value) ==
    IF value.t = "num" /\ value.v.n = "PosInt" THEN Some(value.v.limbs) ELSE None

\* Variant: a value above u32::MAX becomes u32::MAX (a saturating conversion).
AsU32_saturating(limbs) ==
    IF limbs[3] # 0 \/ limbs[4] # 0 THEN <<65535, 65535>> ELSE SubSeq(limbs, 1, 2)

\* u64 as u32: the low 32 bits
AsU32(limbs) == SubSeq(limbs, 1, 2)

\* serde_json::from_slice::<Value>: a raw payload is either the text of a JSON
\* document, carried here as the tree of its values, or bytes that are no
\* JSON document (the empty payload among them).
Json(value) == [t |-> "json", v |-> value]
Garbage == [t |-> "garbage", v |-> 0]
Empty == [t |-> "empty", v |-> 0]

\* The reader's recursion limit: its remaining depth starts at 128, every
\* '[' and '{' takes one off, and the reader fails when none is left.
RecursionLimit == 128

RECURSIVE WideToBig(_)
\* the integer of 16-bit limbs
WideToBig(limbs) ==
    IF Len(limbs) = 0 THEN <<>>
    ELSE IF Len(limbs) = 1 THEN BigOf(limbs[1])
    ELSE LET h == Len(limbs) \div 2
         IN  BigAdd(WideToBig(SubSeq(limbs, 1, h)),
                    BigShl(WideToBig(SubSeq(limbs, h + 1, Len(limbs))), 16 * h),
                    0)

\* a number of decimal digits that a > 0 has at the least: 1 + floor of
\* (BitLen(a) - 1) * 0.30102, which is below log10(a)
DecimalLenMin(a) == ((BitLen(a) - 1) * 30102) \div 100000 + 1

\* the largest number of a non-empty set
MaxOf(set) == CHOOSE d \in set : \A x \in set : x <= d

\* the number of decimal digits of a > 0
DecimalLen(a) ==
    1 + MaxOf({d \in (DecimalLenMin(a) - 1)..((BitLen(a) * 30103) \div 100000) :
                 Len(BigDivPow10(a, d).q) > 0})

\* None for an infinity: the error "number out of range"
FiniteOnly(f) == IF f.k = "inf" THEN None ELSE Some(f)

\* f64_from_parts: `significand as f64 * 10^exponent`, with the power taken
\* from a table that ends at 1e308; a power beyond the table and an infinite
\* product are the error "number out of range"
F64FromParts(sig, exp) ==
    IF exp > 308 THEN None
    ELSE FiniteOnly(MulF64(RoundF64(FALSE, sig, 0, FALSE),
                           DecimalToF64(FALSE, BigOf(1), exp)))

\* parse_integer / parse_long_integer on the integer a of d digits, whose
\* leading 20 digits are s20: the leading digits are taken into a u64
\* significand for as long as they fit (20 of them if fits, else 19), and
\* every further digit counts one power of ten
LongParts(a, d, s20, fits) ==
    F64FromParts(IF fits THEN s20 ELSE BigDivPow10(a, d - 19).q,
                 IF fits THEN d - 20 ELSE d - 19)

LongSplit(a, d, s20) == LongParts(a, d, s20, BitLen(s20) <= 64)

LongDigits(a, d) == LongSplit(a, d, BigDivPow10(a, d - 20).q)

\* an integer of more than 328 digits has a power beyond the table
LongValue(a) ==
    IF DecimalLenMin(a) - 20 > 308 THEN None ELSE LongDigits(a, DecimalLen(a))

\* The reader on an integer literal above u64::MAX: the f64 it is read as,
\* or None for the error "number out of range".
LongInteger(limbs) == LongValue(WideToBig(limbs))

RECURSIVE Reads(_, _)
\* whether the reader, with `depth` levels left, gets through the value
Reads(value, depth) ==
    IF value.t = "num"
    THEN /\ value.v.n # "OutOfRange"
         /\ (value.v.n = "Float" /\ Len(value.v.limbs) > 0)
               => LongInteger(value.v.limbs).some
    ELSE IF value.t = "nested" THEN depth > value.v
    ELSE IF value.t = "arr"
    THEN depth > 1 /\ \A j \in 1..Len(value.v) : Reads(value.v[j], depth - 1)
    ELSE IF value.t = "obj"
    THEN depth > 1 /\ \A key \in DOMAIN value.v : Reads(value.v[key], depth - 1)
    ELSE TRUE

\* Err on bytes that are no JSON document, on a number out of the range of
\* f64 and on 128 levels of nesting
FromSlice(raw) ==
    IF raw.t = "json" /\ Reads(raw.v, RecursionLimit) THEN Some(raw.v) ELSE None

-----------------------------------------------------------------------------
\* Texts the program compares against.

T_ask == <<"a", "s", "k">>
T_bid == <<"b", "i", "d">>
T_trade == <<"t", "r", "a", "d", "e">>
T_change == <<"c", "h", "a", "n", "g", "e">>

\* Variant: the side is matched without regard to case.
MarketSide_from_string_nocase(message) ==
    IF message \in {T_ask, <<"A", "s", "k">>, <<"A", "S", "K">>} THEN "Ask"
    ELSE IF message \in {T_bid, <<"B", "i", "d">>, <<"B", "I", "D">>} THEN "Bid"
    ELSE "Unknown"

\* MarketSide::from_string
MarketSide_from_string(message) ==
    IF message = T_ask THEN "Ask"
    ELSE IF message = T_bid THEN "Bid"
    ELSE "Unknown"

\* MessageType::from_string
MessageType_from_string(message) ==
    IF message = T_trade THEN "Trade"
    ELSE IF message = T_change THEN "Change"
    ELSE "Unknown"

-----------------------------------------------------------------------------
\* Variant: a missing delta becomes Some(0.) (unwrap_or on the parsed value).
DecodeChange_zerodelta(e, price) ==
    LET reason    == AsStr(Index(e, "reason"))
        remaining == AsStr(Index(e, "remaining"))
        delta     == AsStr(Index(e, "delta"))
        rem       == IF remaining.some THEN ParseF64(remaining.v) ELSE Some(Zero)
        del       == IF delta.some THEN ParseF64(delta.v) ELSE Some(Zero)
    IN  IF ~rem.some \/ ~del.some THEN None
        ELSE Some([tag |-> "Quote", price |-> price,
                   reason |-> IF reason.some THEN reason.v ELSE <<>>,
                   remaining |-> rem.v,
                   side |-> IF AsStr(Index(e, "side")).some
                            THEN MarketSide_from_string(AsStr(Index(e, "side")).v)
                            ELSE "Unknown",
                   delta |-> Some(del.v)])

\* Event::new: the closure mapped over the `events` array.  None is a panic
\* (an unwrap of None / Err).

Quote(price, reason, remaining, side, delta) ==
    [tag |-> "Quote", price |-> price, reason |-> reason,
     remaining |-> remaining, side |-> side, delta |-> delta]

Trade(price, amount, maker_side) ==
    [tag |-> "Trade", price |-> price, amount |-> amount,
     maker_side |-> maker_side]

EventUnknown == [tag |-> "Unknown"]

\* Variant: a missing or unparseable amount or price becomes 0.
MandatoryF64_default(e, key) ==
    LET s == AsStr(Index(e, key))
        x == IF s.some THEN ParseF64(s.v) ELSE None
    IN  IF x.some THEN x ELSE Some(Zero)

\* e[key].as_str().unwrap().parse::<f64>().unwrap()
MandatoryF64(e, key) ==
    LET s == AsStr(Index(e, key))
    IN  IF s.some THEN ParseF64(s.v) ELSE None

\* match e[key].as_str() { Some(n) => MarketSide::from_string(n), None => Unknown }
SideOf(e, key) ==
    LET s == AsStr(Index(e, key))
    IN  IF s.some THEN MarketSide_from_string(s.v) ELSE "Unknown"

\* Variant: a remaining or delta that does not parse takes the default too.
DecodeChange_lenient(e, price) ==
    LET reason    == AsStr(Index(e, "reason"))
        remaining == AsStr(Index(e, "remaining"))
        delta     == AsStr(Index(e, "delta"))
        rem       == IF remaining.some THEN ParseF64(remaining.v) ELSE Some(Zero)
        del       == IF delta.some THEN ParseF64(delta.v) ELSE None
    IN  Some(Quote(price,
                   IF reason.some THEN reason.v ELSE <<>>,
                   IF rem.some THEN rem.v ELSE Zero,
                   SideOf(e, "side"),
                   del))

DecodeChange(e, price) ==
    LET reason    == AsStr(Index(e, "reason"))
        remaining == AsStr(Index(e, "remaining"))
        delta     == AsStr(Index(e, "delta"))
        rem       == IF remaining.some THEN ParseF64(remaining.v) ELSE Some(Zero)
        del       == IF delta.some THEN ParseF64(delta.v) ELSE Some(Zero)
    IN  IF ~rem.some \/ ~del.some THEN None
        ELSE Some(Quote(price,
                        IF reason.some THEN reason.v ELSE <<>>,
                        rem.v,
                        SideOf(e, "side"),
                        IF delta.some THEN Some(del.v) ELSE None))

DecodeTrade(e, price) ==
    LET amount == MandatoryF64(e, "amount")
    IN  IF ~amount.some THEN None
        ELSE Some(Trade(price, amount.v, SideOf(e, "makerSide")))

DecodeEvent(e) ==
    LET price == MandatoryF64(e, "price")
        type  == AsStr(Index(e, "type"))
    IN  IF ~price.some THEN None
        ELSE IF ~type.some THEN None
        ELSE LET kind == MessageType_from_string(type.v)
             IN  IF kind = "Change" THEN DecodeChange(e, price.v)
                 ELSE IF kind = "Trade" THEN DecodeTrade(e, price.v)
                 ELSE Some(EventUnknown)

RECURSIVE DecodeEvents_reversed(_)
\* Variant: the decoded events are collected last first.
DecodeEvents_reversed(arr) ==
    IF Len(arr) = 0 THEN Some(<<>>)
    ELSE LET head == DecodeEvent(Head(arr))
             rest == DecodeEvents_reversed(Tail(arr))
         IN  IF ~head.some THEN None
             ELSE IF ~rest.some THEN None
             ELSE Some(rest.v \o <<head.v>>)

RECURSIVE DecodeEvents(_)
\* .iter().map(..).collect(): the elements in order; the first panic ends it
DecodeEvents(arr) ==
    IF Len(arr) = 0 THEN Some(<<>>)
    ELSE LET head == DecodeEvent(Head(arr))
             rest == DecodeEvents(Tail(arr))
         IN  IF ~head.some THEN None
             ELSE IF ~rest.some THEN None
             ELSE Some(<<head.v>> \o rest.v)

\* Variant: the events before the first malformed one are kept (the batch is
\* cut short instead of the call failing).
RECURSIVE DecodePrefix(_)
DecodePrefix(arr) ==
    IF Len(arr) = 0 THEN <<>>
    ELSE LET head == DecodeEvent(Head(arr))
         IN  IF ~head.some THEN <<>>
             ELSE <<head.v>> \o DecodePrefix(Tail(arr))

EventNew_prefix(message) ==
    LET parsed == FromSlice(message)
        m      == parsed.v
        arr    == AsArray(Index(m, "events"))
        id     == AsU64(Index(m, "eventId"))
        seq    == AsU64(Index(m, "socket_sequence"))
    IN  IF ~parsed.some \/ ~arr.some \/ ~id.some \/ ~seq.some THEN None
        ELSE Some([event_id        |-> id.v,
                   events          |-> DecodePrefix(arr.v),
                   timestamp       |-> AsU64(Index(m, "timestamp")),
                   timestampms     |-> AsU64(Index(m, "timestampms")),
                   socket_sequence |-> AsU32(seq.v)])

\* Event::new
EventNew(message) ==
    LET parsed == FromSlice(message)
        m      == parsed.v
        arr    == AsArray(Index(m, "events"))
        events == DecodeEvents(arr.v)
        id     == AsU64(Index(m, "eventId"))
        seq    == AsU64(Index(m, "socket_sequence"))
    IN  IF ~parsed.some THEN None
        ELSE IF ~arr.some THEN None
        ELSE IF ~events.some THEN None
        ELSE IF ~id.some THEN None
        ELSE IF ~seq.some THEN None
        ELSE Some([event_id        |-> id.v,
                   events          |-> events.v,
                   timestamp       |-> AsU64(Index(m, "timestamp")),
                   timestampms     |-> AsU64(Index(m, "timestampms")),
                   socket_sequence |-> AsU32(seq.v)])

\* BestBidOffer::new
BestBidOfferNew ==
    [best_bid |-> Zero, best_offer |-> Zero,
     bid_amount_remaining |-> Zero, ask_amount_remaining |-> Zero]

-----------------------------------------------------------------------------
\* The processing loop: the closure of read.for_each in main.

\* Result<Message, Error> as the stream yields it
Frame(raw) == [err |-> FALSE, raw |-> raw]
TransportErr == [err |-> TRUE, raw |-> Empty]

NoMsg == [kind |-> "none"]
\* format!("{:?} ${}\n", t, dollar_amt)
TradeMsg(t, dollar_amt) == [kind |-> "trade", trade |-> t, dollar_amt |-> dollar_amt]
\* format!("{:?}\n", bbo.lock().unwrap())
BboMsg(b) == [kind |-> "bbo", bbo |-> b]

\* println!("WebSocket handshake has been completed!")
HandshakeMsg == [kind |-> "handshake"]

\* tokio::io::stdout().write_all(m).await on a fresh handle: the bytes are
\* copied, the write is given to a spawn_blocking task and the future is
\* ready at once
HandOver(m) ==
    /\ sent' = Append(sent, m)
    /\ queued' = queued \cup {Len(sent) + 1}
    /\ UNCHANGED out

\* the element the for loop is at
Cur == event.v.events[i]
InLoop == pc = "loop" /\ i <= Len(event.v.events)

\* Variant: the Bid arm assigns best_offer.
SetPrice_crossed(b, q) == [b EXCEPT !.best_offer = q.price]

\* first assignment of the Ask / Bid arm
SetPrice(b, q) ==
    IF q.side = "Ask" THEN [b EXCEPT !.best_offer = q.price]
    ELSE [b EXCEPT !.best_bid = q.price]

\* Variant: the Ask arm assigns bid_amount_remaining.
SetRemaining_pasted(b, q) == [b EXCEPT !.bid_amount_remaining = q.remaining]

\* Variant: a remaining of 0.0 leaves the stored amount as it is.
SetRemaining_keep(b, q) ==
    IF q.remaining = Zero THEN b
    ELSE IF q.side = "Ask" THEN [b EXCEPT !.ask_amount_remaining = q.remaining]
    ELSE [b EXCEPT !.bid_amount_remaining = q.remaining]

\* second assignment of the Ask / Bid arm
SetRemaining(b, q) ==
    IF q.side = "Ask" THEN [b EXCEPT !.ask_amount_remaining = q.remaining]
    ELSE [b EXCEPT !.bid_amount_remaining = q.remaining]

\* main up to the for_each: the connection is made, the handshake line is
\* printed and the BestBidOffer is created behind its mutex
Init ==
    /\ pc = "recv"
    /\ nrecv = 0
    /\ data = Empty
    /\ event = None
    /\ i = 0
    /\ bbo = BestBidOfferNew
    /\ lock = "free"
    /\ msg = NoMsg
    /\ sent = <<>>
    /\ queued = {}
    /\ out = <<HandshakeMsg>>
    /\ panic = ""
    /\ applied = <<>>
    /\ pre = BestBidOfferNew
    /\ start = [bbo |-> BestBidOfferNew, nsent |-> 0, applied |-> <<>>]

\* Variant: an empty frame is not passed over in silence: the current
\* BestBidOffer is written for it.
Handle_emptyreport(f) ==
    /\ pc = "recv"
    /\ nrecv < MaxMsgs
    /\ nrecv' = nrecv + 1
    /\ IF f.err
       THEN /\ pc' = "panicked"
            /\ panic' = "transport"
            /\ UNCHANGED <<data, event, i, start, sent, queued, out>>
       ELSE IF f.raw.t = "empty"
       THEN /\ UNCHANGED <<pc, panic, data, event, i, start>>
            /\ HandOver(BboMsg(bbo))
       ELSE /\ data' = f.raw
            /\ event' = EventNew(f.raw)
            /\ start' = [bbo |-> bbo, nsent |-> Len(sent), applied |-> applied]
            /\ IF event'.some
               THEN pc' = "loop" /\ i' = 1 /\ UNCHANGED panic
               ELSE pc' = "panicked" /\ panic' = "decode" /\ UNCHANGED i
            /\ UNCHANGED <<sent, queued, out>>
    /\ UNCHANGED <<bbo, lock, msg, applied, pre>>

\* message.unwrap(); is_empty; into_data; Event::new
Handle(f) ==
    /\ pc = "recv"
    /\ nrecv < MaxMsgs
    /\ nrecv' = nrecv + 1
    /\ IF f.err
       THEN /\ pc' = "panicked"
            /\ panic' = "transport"
            /\ UNCHANGED <<data, event, i, start>>
       ELSE IF f.raw.t = "empty"
       THEN UNCHANGED <<pc, panic, data, event, i, start>>
       ELSE /\ data' = f.raw
            /\ event' = EventNew(f.raw)
            /\ start' = [bbo |-> bbo, nsent |-> Len(sent), applied |-> applied]
            /\ IF event'.some
               THEN pc' = "loop" /\ i' = 1 /\ UNCHANGED panic
               ELSE pc' = "panicked" /\ panic' = "decode" /\ UNCHANGED i
    /\ UNCHANGED <<bbo, lock, msg, sent, queued, out, applied, pre>>

\* the stream ends: for_each completes and main returns
StreamEnd ==
    /\ pc = "recv"
    /\ pc' = "done"
    /\ UNCHANGED <<nrecv, data, event, i, bbo, lock, msg, sent, queued, out, panic, applied,
                   pre, start>>

\* the for loop is exhausted: the closure's future completes
LoopEnd ==
    /\ pc = "loop"
    /\ i > Len(event.v.events)
    /\ pc' = "recv"
    /\ UNCHANGED <<nrecv, data, event, i, bbo, lock, msg, sent, queued, out, panic, applied,
                   pre, start>>

\* Variant: dollar_amt is t.price * t.price.
TradeFormat_squared ==
    /\ InLoop
    /\ Cur.tag = "Trade"
    /\ msg' = TradeMsg(Cur, MulF64(Cur.price, Cur.price))
    /\ pc' = "trade_write"
    /\ UNCHANGED <<nrecv, data, event, i, bbo, lock, sent, queued, out, panic, applied, pre,
                   start>>

\* Event::Trade(t): dollar_amt and msg
TradeFormat ==
    /\ InLoop
    /\ Cur.tag = "Trade"
    /\ msg' = TradeMsg(Cur, MulF64(Cur.amount, Cur.price))
    /\ pc' = "trade_write"
    /\ UNCHANGED <<nrecv, data, event, i, bbo, lock, sent, queued, out, panic, applied, pre,
                   start>>

\* tokio::io::stdout().write_all(msg.as_bytes()).await.unwrap()
TradeWrite ==
    /\ pc = "trade_write"
    /\ HandOver(msg)
    /\ i' = i + 1
    /\ pc' = "loop"
    /\ UNCHANGED <<nrecv, data, event, bbo, lock, msg, panic, applied, pre,
                   start>>

\* Variant: the fields are assigned without taking the mutex.
QuoteLock_nomutex ==
    /\ InLoop
    /\ Cur.tag = "Quote"
    /\ Cur.side \in {"Ask", "Bid"}
    /\ pre' = bbo
    /\ pc' = "upd_price"
    /\ UNCHANGED <<nrecv, data, event, i, bbo, lock, msg, sent, queued, out, panic, applied,
                   start>>

\* Event::Quote(q), side Ask or Bid: bbo.lock().unwrap()
QuoteLock ==
    /\ InLoop
    /\ Cur.tag = "Quote"
    /\ Cur.side \in {"Ask", "Bid"}
    /\ lock = "free"
    /\ lock' = "main"
    /\ pre' = bbo
    /\ pc' = "upd_price"
    /\ UNCHANGED <<nrecv, data, event, i, bbo, msg, sent, queued, out, panic, applied,
                   start>>

\* bbo.best_offer = q.price / bbo.best_bid = q.price
QuoteSetPrice ==
    /\ pc = "upd_price"
    /\ bbo' = SetPrice(bbo, Cur)
    /\ pc' = "upd_remaining"
    /\ UNCHANGED <<nrecv, data, event, i, lock, msg, sent, queued, out, panic, applied, pre,
                   start>>

\* Variant: the guard outlives the update block.
QuoteSetRemaining_holding ==
    /\ pc = "upd_remaining"
    /\ bbo' = SetRemaining(bbo, Cur)
    /\ applied' = Append(applied, Cur)
    /\ pc' = "snap"
    /\ UNCHANGED <<nrecv, data, event, i, lock, msg, sent, queued, out, panic, pre, start>>

\* bbo.ask_amount_remaining = q.remaining / bbo.bid_amount_remaining =
\* q.remaining, and the guard is dropped at the end of the block
QuoteSetRemaining ==
    /\ pc = "upd_remaining"
    /\ bbo' = SetRemaining(bbo, Cur)
    /\ lock' = "free"
    /\ applied' = Append(applied, Cur)
    /\ pc' = "snap"
    /\ UNCHANGED <<nrecv, data, event, i, msg, sent, queued, out, panic, pre, start>>

\* Variant: a Quote of side Unknown is skipped without a report.
QuoteUnknownSide_noreport ==
    /\ InLoop
    /\ Cur.tag = "Quote"
    /\ Cur.side = "Unknown"
    /\ pre' = bbo
    /\ applied' = Append(applied, Cur)
    /\ i' = i + 1
    /\ UNCHANGED <<pc, nrecv, data, event, bbo, lock, msg, sent, queued, out, panic, start>>

\* Event::Quote(q), MarketSide::Unknown => {}
QuoteUnknownSide ==
    /\ InLoop
    /\ Cur.tag = "Quote"
    /\ Cur.side = "Unknown"
    /\ pre' = bbo
    /\ applied' = Append(applied, Cur)
    /\ pc' = "snap"
    /\ UNCHANGED <<nrecv, data, event, i, bbo, lock, msg, sent, queued, out, panic, start>>

\* let msg = format!("{:?}\n", bbo.lock().unwrap()): the guard is a temporary
\* of the statement, so the mutex is taken, read and released in it
SnapshotFormat ==
    /\ pc = "snap"
    /\ lock = "free"
    /\ msg' = BboMsg(bbo)
    /\ pc' = "snap_write"
    /\ UNCHANGED <<nrecv, data, event, i, bbo, lock, sent, queued, out, panic, applied, pre,
                   start>>

\* tokio::io::stdout().write_all(msg.as_bytes()).await.unwrap()
SnapshotWrite ==
    /\ pc = "snap_write"
    /\ HandOver(msg)
    /\ i' = i + 1
    /\ pc' = "loop"
    /\ UNCHANGED <<nrecv, data, event, bbo, lock, msg, panic, applied, pre,
                   start>>

\* Variant: an Event::Unknown is answered with a BestBidOffer report.
SkipUnknown_report ==
    /\ InLoop
    /\ Cur.tag = "Unknown"
    /\ pc' = "snap"
    /\ UNCHANGED <<nrecv, data, event, i, bbo, lock, msg, sent, queued, out, panic, applied,
                   pre, start>>

\* Variant: the loop does not move past an Event::Unknown.
SkipUnknown_stall ==
    /\ InLoop
    /\ Cur.tag = "Unknown"
    /\ UNCHANGED <<pc, nrecv, data, event, i, bbo, lock, msg, sent, queued, out, panic,
                   applied, pre, start>>

\* Event::Unknown => {}
SkipUnknown ==
    /\ InLoop
    /\ Cur.tag = "Unknown"
    /\ i' = i + 1
    /\ UNCHANGED <<pc, nrecv, data, event, bbo, lock, msg, sent, queued, out, panic, applied,
                   pre, start>>

\* a thread of the blocking pool runs one of the queued writes: its line
\* reaches stdout (the pool takes the tasks of the different handles in any
\* order, also while the runtime shuts down)
PoolWrite ==
    \E k \in queued :
        /\ out' = Append(out, sent[k])
        /\ queued' = queued \ {k}
        /\ UNCHANGED <<pc, nrecv, data, event, i, bbo, lock, msg, sent, panic,
                       applied, pre, start>>

\* main has returned or panicked: the runtime shuts down and the writes
\* that no pool thread has started are dropped
PoolDrop ==
    /\ pc \in {"done", "panicked"}
    /\ queued # {}
    /\ queued' = {}
    /\ UNCHANGED <<pc, nrecv, data, event, i, bbo, lock, msg, sent, out, panic,
                   applied, pre, start>>

-----------------------------------------------------------------------------
\* Wire inputs.

T_liquidation == <<"l", "i", "q", "u", "i", "d", "a", "t", "i", "o", "n">>
T_BID == <<"B", "I", "D">>
T_Trade == <<"T", "r", "a", "d", "e">>
T_place == <<"p", "l", "a", "c", "e">>
T_abc == <<"a", "b", "c">>
T_nan == <<"n", "a", "n">>
T_50000 == <<"5", "0", "0", "0", "0", ".", "0", "0">>
T_50010 == <<"5", "0", "0", "1", "0", ".", "0", "0">>
T_100_50 == <<"1", "0", "0", ".", "5", "0">>
T_1_5 == <<"1", ".", "5">>
T_0_8 == <<"0", ".", "8">>
T_2_0 == <<"2", ".", "0">>
T_2_5 == <<"2", ".", "5">>
T_3 == <<"3">>
T_4 == <<"4">>
T_7 == <<"7">>
T_9 == <<"9">>
T_m1 == <<"-", "1">>
T_0 == <<"0">>

\* a key that the object does not have
Absent == [t |-> "absent", v |-> 0]

\* the JSON object with the keys of f that are not Absent
ObjOf(f) == JObj([k \in {x \in DOMAIN f : f[x].t # "absent"} |-> f[k]])

WireEvent(type, price, side, remaining, amount) ==
    ObjOf([type |-> type, price |-> price, side |-> side,
           remaining |-> remaining, amount |-> amount])

U64(n) == JPosInt(<<n, 0, 0, 0>>)

WireMessage(eventId, events, socket_sequence) ==
    ObjOf([type |-> JStr(<<"u", "p", "d", "a", "t", "e">>),
           eventId |-> eventId, events |-> events,
           socket_sequence |-> socket_sequence])

W_bid1 == WireEvent(JStr(T_change), JStr(T_50000), JStr(T_bid), JStr(T_1_5), Absent)
W_ask1 == WireEvent(JStr(T_change), JStr(T_50010), JStr(T_ask), JStr(T_0_8), Absent)
W_bid2 == WireEvent(JStr(T_change), JStr(T_2_5), JStr(T_bid), Absent, Absent)
W_ask2 ==
    JObj([type |-> JStr(T_change), price |-> JStr(T_3), side |-> JStr(T_ask),
          remaining |-> JStr(T_4), reason |-> JStr(T_place),
          delta |-> JStr(T_m1)])
W_upper == WireEvent(JStr(T_change), JStr(T_7), JStr(T_BID), JStr(T_9), Absent)
W_noside == WireEvent(JStr(T_change), JStr(T_7), Absent, JStr(T_9), Absent)
W_numside == WireEvent(JStr(T_change), JStr(T_7), U64(1), JStr(T_9), Absent)
W_trade ==
    JObj([type |-> JStr(T_trade), price |-> JStr(T_100_50),
          amount |-> JStr(T_2_0), makerSide |-> JStr(T_bid)])
W_liq == WireEvent(JStr(T_liquidation), JStr(T_3), JStr(T_bid), JStr(T_4), Absent)
W_liq_noprice == WireEvent(JStr(T_liquidation), Absent, Absent, Absent, Absent)
W_trade_noamount == WireEvent(JStr(T_trade), JStr(T_3), Absent, Absent, Absent)
W_ask_numrem == WireEvent(JStr(T_change), JStr(T_9), JStr(T_ask), JFloat, Absent)
W_ask_hugerem ==
    WireEvent(JStr(T_change), JStr(T_9), JStr(T_ask), JOutOfRange, Absent)
W_badprice == WireEvent(JStr(T_change), JStr(T_abc), JStr(T_bid), JStr(T_4), Absent)

Batch(events) == Frame(Json(WireMessage(U64(1), JArr(events), U64(1))))

\* The frames the transport can deliver to the processing loop.
Feed ==
    << Batch(<<W_bid1, W_ask1>>),
       Batch(<<W_trade, W_liq, W_bid2>>),
       Batch(<<W_ask2, W_liq, W_noside>>),
       Batch(<<W_upper, W_numside>>),
       Batch(<<>>),
       Batch(<<W_ask1, W_trade, W_trade_noamount>>),
       Batch(<<W_bid2, W_badprice, W_ask2>>),
       Batch(<<W_bid1, W_liq_noprice>>),
       Batch(<<W_ask1, W_ask_numrem>>),
       Batch(<<W_bid1, W_ask_hugerem>>),
       Frame(Json(WireMessage(Absent, JArr(<<W_bid1>>), U64(1)))),
       Frame(Json(WireMessage(U64(1), Absent, U64(1)))),
       Frame(Garbage),
       Frame(Empty),
       TransportErr >>

Next ==
    \/ \E k \in 1..Len(Feed) : Handle(Feed[k])
    \/ StreamEnd
    \/ LoopEnd
    \/ TradeFormat
    \/ TradeWrite
    \/ QuoteLock
    \/ QuoteSetPrice
    \/ QuoteSetRemaining
    \/ QuoteUnknownSide
    \/ SnapshotFormat
    \/ SnapshotWrite
    \/ SkipUnknown
    \/ PoolWrite
    \/ PoolDrop

Spec == Init /\ [][Next]_vars

-----------------------------------------------------------------------------
\* A run on a feed that keeps to the wire format: the transport delivers
\* well-formed frames and then ends the stream.

\* a frame the closure gets through: Ok, and empty or decodable
WellFormed(f) == ~f.err /\ (f.raw.t = "empty" \/ EventNew(f.raw).some)

\* the steps of the closure's future between two polls of the stream
LoopStep ==
    \/ LoopEnd
    \/ TradeFormat
    \/ TradeWrite
    \/ QuoteLock
    \/ QuoteSetPrice
    \/ QuoteSetRemaining
    \/ QuoteUnknownSide
    \/ SnapshotFormat
    \/ SnapshotWrite
    \/ SkipUnknown

\* the well-formed frames of the feed
LiveFeed == SelectSeq(Feed, WellFormed)

NextLive ==
    \/ \E k \in 1..Len(LiveFeed) : Handle(LiveFeed[k])
    \/ StreamEnd
    \/ LoopStep
    \/ PoolWrite
    \/ PoolDrop

\* The executor keeps polling the one future of main (no step of the loop
\* waits for the pool), and the transport, when it delivers no further frame,
\* ends the stream.
SpecLive == Init /\ [][NextLive]_vars /\ WF_vars(LoopStep) /\ WF_vars(StreamEnd)

-----------------------------------------------------------------------------
\* Event::new on its own: one call on one input.

\* 2^k in 16-bit limbs
Pow2Limbs(k) ==
    [j \in 1..(k \div 16 + 1) |-> IF j = k \div 16 + 1 THEN 2^(k % 16) ELSE 0]

TypeVals ==
    <<Absent, JStr(T_trade), JStr(T_change), JStr(T_liquidation),
      JStr(T_Trade), U64(1)>>
PriceVals ==
    <<Absent, JStr(T_1_5), JStr(T_abc), JStr(<<>>), JStr(T_nan), JFloat>>
SideVals == <<Absent, JStr(T_bid), JStr(T_BID), JBool(TRUE)>>
RemainingVals ==
    <<Absent, JStr(T_4), JStr(T_abc), JStr(T_nan), JFloat, JOutOfRange>>
AmountVals == <<Absent, JStr(T_2_0), JStr(T_abc), JFloat>>
\* a reason of nested arrays lies below the document, its `events` and the
\* element: the deeper of the two brings the document to the recursion limit
ReasonVals ==
    <<Absent, U64(1), JStr(T_place), Nested(RecursionLimit - 4),
      Nested(RecursionLimit - 3)>>
\* among them 2^1100, an integer beyond f64::MAX
DeltaVals ==
    <<Absent, JFloat, JStr(T_m1), JStr(T_0), JStr(T_abc), JStr(T_nan),
      JBigInt(Pow2Limbs(1100))>>

\* a "change" element with a well-formed price
ChangeEvent(side, remaining, reason, delta) ==
    ObjOf([type |-> JStr(T_change), price |-> JStr(T_1_5), side |-> side,
           remaining |-> remaining, reason |-> reason, delta |-> delta])

\* well-formed elements around the one under test
Fillers == <<W_bid1, W_trade>>

RECURSIVE FillerChoices(_)
\* the sequences of n indices into Fillers
FillerChoices(n) ==
    IF n = 0 THEN {<<>>}
    ELSE {<<f>> \o r : f \in 1..Len(Fillers), r \in FillerChoices(n - 1)}

FillersOf(c) == [j \in 1..Len(c) |-> Fillers[c[j]]]

\* the fillers before and after the element under test: at most MaxEvents
\* elements in all
Surroundings ==
    UNION {FillerChoices(n[1]) \X FillerChoices(n[2]) :
           n \in {x \in (0..MaxEvents) \X (0..MaxEvents) : x[1] + x[2] < MaxEvents}}

\* a message whose `events` holds the element under test among fillers
ProbeInput(around, probe) ==
    Json(WireMessage(U64(1),
                     JArr(FillersOf(around[1]) \o <<probe>> \o FillersOf(around[2])),
                     U64(1)))

\* elements of `events` that are no objects
OddElements == <<Null, JStr(T_bid), U64(1)>>

\* among them 2^32 + 5, u64::MAX, 2^64 and 2^1100
IdVals ==
    <<Absent, U64(7), JNegInt, JFloat, JStr(T_3), JPosInt(<<5, 0, 1, 0>>),
      JPosInt(<<65535, 65535, 65535, 65535>>), JBigInt(<<0, 0, 0, 0, 1>>),
      JBigInt(Pow2Limbs(1100)), JOutOfRange>>
EventsVals ==
    <<Absent, Null, JStr(T_abc), JArr(<<>>), JArr(<<W_bid1, W_trade>>)>>

\* inputs that are no JSON object
OddInputs == <<Json(JArr(<<W_bid1>>)), Json(Null), Garbage, Empty>>

\* the inputs of the decoder
IsDecodeInput(raw) ==
    \/ \E around \in Surroundings :
        \/ \E t \in 1..Len(TypeVals), p \in 1..Len(PriceVals),
              sd \in 1..Len(SideVals), r \in 1..Len(RemainingVals),
              a \in 1..Len(AmountVals) :
              raw = ProbeInput(around,
                               WireEvent(TypeVals[t], PriceVals[p], SideVals[sd],
                                         RemainingVals[r], AmountVals[a]))
        \/ \E k \in 1..Len(OddElements) : raw = ProbeInput(around, OddElements[k])
        \/ \E sd \in 1..Len(SideVals), r \in 1..Len(RemainingVals),
              rs \in 1..Len(ReasonVals), d \in 1..Len(DeltaVals) :
              raw = ProbeInput(around,
                               ChangeEvent(SideVals[sd], RemainingVals[r],
                                           ReasonVals[rs], DeltaVals[d]))
    \/ \E id \in 1..Len(IdVals), evs \in 1..Len(EventsVals), sq \in 1..Len(IdVals) :
          raw = Json(WireMessage(IdVals[id], EventsVals[evs], IdVals[sq]))
    \/ \E k \in 1..Len(OddInputs) : raw = OddInputs[k]

InitDecode ==
    /\ pc = "decode"
    /\ IsDecodeInput(data)
    /\ nrecv = 0
    /\ event = None
    /\ i = 0
    /\ bbo = BestBidOfferNew
    /\ lock = "free"
    /\ msg = NoMsg
    /\ sent = <<>>
    /\ queued = {}
    /\ out = <<HandshakeMsg>>
    /\ panic = ""
    /\ applied = <<>>
    /\ pre = BestBidOfferNew
    /\ start = [bbo |-> BestBidOfferNew, nsent |-> 0, applied |-> <<>>]

\* let event = Event::new(data.as_slice())
DecodeCall ==
    /\ pc = "decode"
    /\ event' = EventNew(data)
    /\ pc' = "decoded"
    /\ UNCHANGED <<nrecv, data, i, bbo, lock, msg, sent, queued, out, panic, applied, pre,
                   start>>

NextDecode == DecodeCall

SpecDecode == InitDecode /\ [][NextDecode]_vars

-----------------------------------------------------------------------------
\* Vocabulary of the properties.

F_50000 == Normalize(FALSE, 5, 4)
F_50010 == Normalize(FALSE, 5001, 1)
F_1_5 == Normalize(FALSE, 15, -1)
F_0_8 == Normalize(FALSE, 8, -1)
F_100_5 == Normalize(FALSE, 1005, -1)
F_2 == Normalize(FALSE, 2, 0)
F_201 == Normalize(FALSE, 201, 0)

\* the wire `events` array of the frame being handled, and its i-th element
WireEvents == Index(data.v, "events").v
WireCur == WireEvents[i]

IsText(value, texts) == value.t = "str" /\ value.v \in texts

RECURSIVE LastOfSide(_, _)
\* the most recent Quote of the side in a history of Quotes
LastOfSide(qs, side) ==
    IF Len(qs) = 0 THEN None
    ELSE IF qs[Len(qs)].side = side THEN Some(qs[Len(qs)])
    ELSE LastOfSide(SubSeq(qs, 1, Len(qs) - 1), side)

\* section 4.2 of the specification: apply(quote)
ApplyRef(b, q) ==
    IF q.side = "Bid"
    THEN [b EXCEPT !.best_bid = q.price, !.bid_amount_remaining = q.remaining]
    ELSE IF q.side = "Ask"
    THEN [b EXCEPT !.best_offer = q.price, !.ask_amount_remaining = q.remaining]
    ELSE b

RECURSIVE FoldRef(_)
FoldRef(qs) ==
    IF Len(qs) = 0 THEN BestBidOfferNew
    ELSE ApplyRef(FoldRef(SubSeq(qs, 1, Len(qs) - 1)), qs[Len(qs)])

\* the reports of one kind among those handed to stdout, in order
ReportsOf(kind) == SelectSeq(sent, LAMBDA r : r.kind = kind)

\* the mutex is not held by an update in progress
ObservationPoint == lock # "main"

\* the loop is between two events of a batch, between two frames, or stopped
BetweenEvents == pc \in {"recv", "loop", "done", "panicked"}

-----------------------------------------------------------------------------
\* C1: at every observation point the bid fields are the price and remaining
\* of the most recently processed Bid Quote (0 and 0 when there is none) and
\* the ask fields those of the most recently processed Ask Quote.
C1_BboReflectsLastQuotes ==
    ObservationPoint =>
        LET b == LastOfSide(applied, "Bid")
            a == LastOfSide(applied, "Ask")
        IN  /\ bbo.best_bid = (IF b.some THEN b.v.price ELSE Zero)
            /\ bbo.bid_amount_remaining = (IF b.some THEN b.v.remaining ELSE Zero)
            /\ bbo.best_offer = (IF a.some THEN a.v.price ELSE Zero)
            /\ bbo.ask_amount_remaining = (IF a.some THEN a.v.remaining ELSE Zero)

\* the sequence example: bid (50000.00, 1.5) then ask (50010.00, 0.8) in one
\* message, and the snapshot reported last
C1_Witness ==
    /\ pc = "loop"
    /\ nrecv = 1
    /\ Len(sent) = 2
    /\ sent[2] = BboMsg([best_bid |-> F_50000, bid_amount_remaining |-> F_1_5,
                        best_offer |-> F_50010, ask_amount_remaining |-> F_0_8])

\* C2: applying a Bid Quote sets best_bid and bid_amount_remaining to the
\* Quote's values and leaves best_offer and ask_amount_remaining at their
\* values before the call; symmetrically for an Ask Quote.
C2_SideFrame ==
    (pc \in {"upd_remaining", "snap"} /\ Cur.side = "Bid"
        => /\ bbo.best_offer = pre.best_offer
           /\ bbo.ask_amount_remaining = pre.ask_amount_remaining
           /\ bbo.best_bid = Cur.price
           /\ pc = "snap" => bbo.bid_amount_remaining = Cur.remaining)
    /\ (pc \in {"upd_remaining", "snap"} /\ Cur.side = "Ask"
        => /\ bbo.best_bid = pre.best_bid
           /\ bbo.bid_amount_remaining = pre.bid_amount_remaining
           /\ bbo.best_offer = Cur.price
           /\ pc = "snap" => bbo.ask_amount_remaining = Cur.remaining)

\* a Bid Quote has been applied to a book whose ask fields were already set
C2_Witness ==
    /\ pc = "snap"
    /\ Cur.side = "Bid"
    /\ pre.best_offer # Zero
    /\ pre.ask_amount_remaining # Zero
    /\ bbo.best_bid # pre.best_bid

\* C3: a "change" event whose wire side is absent, not a string, or a string
\* other than exactly "bid" / "ask" decodes to a Quote of side Unknown, and
\* applying it leaves the four fields as they were before the call.
C3_UnknownSideNoOp ==
    /\ event.some /\ data.t = "json" =>
         \A k \in 1..Len(WireEvents) :
            (/\ IsText(Index(WireEvents[k], "type"), {T_change})
             /\ ~IsText(Index(WireEvents[k], "side"), {T_bid, T_ask}))
            => /\ event.v.events[k].tag = "Quote"
               /\ event.v.events[k].side = "Unknown"
    /\ pc \in {"snap", "snap_write"} /\ Cur.side = "Unknown" => bbo = pre

\* the Quote of wire side "BID" has been applied to a book that was not empty
C3_Witness ==
    /\ pc = "snap_write"
    /\ IsText(Index(WireCur, "side"), {T_BID})
    /\ pre # BestBidOfferNew
    /\ msg = BboMsg(pre)

\* the lines on stdout after the handshake line are reports that were handed
\* over and whose write has run, each at most once
StdoutFromReports ==
    /\ out[1] = HandshakeMsg
    /\ queued \subseteq 1..Len(sent)
    /\ Len(out) - 1 + Cardinality(queued) <= Len(sent)
    /\ \A k \in 2..Len(out) :
          \E j \in (1..Len(sent)) \ queued :
              out[k].kind = sent[j].kind /\ out[k] = sent[j]

\* C4: each processed Quote, side Unknown included, is followed by exactly one
\* snapshot report before the next event, and the report is the book right
\* after that Quote: between events the snapshot reports handed to stdout
\* are, one for one, the books obtained by applying the processed Quotes in
\* order, and stdout shows no line that is not one of the reports.
C4_OneSnapshotPerQuote ==
    /\ StdoutFromReports
    /\ BetweenEvents =>
         /\ Len(ReportsOf("bbo")) = Len(applied)
         /\ \A k \in 1..Len(applied) :
               ReportsOf("bbo")[k] = BboMsg(FoldRef(SubSeq(applied, 1, k)))
    /\ pc = "snap_write" =>
         /\ msg = BboMsg(bbo)
         /\ Len(ReportsOf("bbo")) + 1 = Len(applied)

\* three Quotes processed and reported, one of them of side Unknown
C4_Witness ==
    /\ pc = "loop"
    /\ Len(applied) >= 3
    /\ \E k \in 1..Len(applied) : applied[k].side = "Unknown"
    /\ \E k \in 1..Len(applied) : applied[k].side = "Bid"
    /\ Len(ReportsOf("bbo")) = Len(applied)

\* each side's pair of b is (0, 0) or the (price, remaining) of one processed
\* Quote of that side
WholePairs(b) ==
    LET pairs(side) ==
            {<<Zero, Zero>>} \cup
            {<<applied[k].price, applied[k].remaining>> :
                k \in {x \in 1..Len(applied) : applied[x].side = side}}
    IN  /\ <<b.best_bid, b.bid_amount_remaining>> \in pairs("Bid")
        /\ <<b.best_offer, b.ask_amount_remaining>> \in pairs("Ask")

\* C5: whoever takes the mutex finds each side's price with the remaining
\* amount of the same Quote: the record is whole whenever the mutex is free,
\* and so is every snapshot the loop copied under the mutex for a report.
C5_NoTornRead ==
    /\ lock = "free" => WholePairs(bbo)
    /\ pc = "snap_write" => WholePairs(msg.bbo)
    /\ \A k \in 1..Len(sent) : sent[k].kind = "bbo" => WholePairs(sent[k].bbo)

\* the loop holds the mutex between the two assignments of a Quote: the
\* record has the new price with the old remaining amount, after an earlier
\* Quote was reported
C5_Witness ==
    /\ lock = "main"
    /\ pc = "upd_remaining"
    /\ ~WholePairs(bbo)
    /\ \E k \in 1..Len(sent) : sent[k].kind = "bbo" /\ sent[k].bbo.best_bid # Zero

\* C6: the steps that process a Trade leave the four fields and the mutex
\* alone and hand exactly one report to stdout, the trade with its price,
\* amount and maker_side and notional = amount * price, and no snapshot.
TradeStep ==
    /\ (InLoop /\ Cur.tag = "Trade") \/ pc = "trade_write"
    /\ <<pc, i>>' # <<pc, i>>

C6_TradeFrame ==
    [][TradeStep =>
        /\ bbo' = bbo
        /\ lock' = lock
        /\ pc = "loop" => sent' = sent /\ pc' = "trade_write" /\ i' = i
        /\ pc = "trade_write" =>
             /\ sent' = Append(sent, TradeMsg(Cur, MulF64(Cur.amount, Cur.price)))
             /\ Cur.tag = "Trade"
             /\ pc' = "loop"
             /\ i' = i + 1]_vars

\* the trade of price 100.50 and amount 2.0 reported with notional 201
C6_Witness ==
    /\ bbo # BestBidOfferNew
    /\ \E k \in 1..Len(sent) :
          /\ sent[k].kind = "trade"
          /\ sent[k].trade.price = F_100_5
          /\ sent[k].trade.amount = F_2
          /\ sent[k].trade.maker_side = "Bid"
          /\ sent[k].dollar_amt = F_201

-----------------------------------------------------------------------------
\* Section 7 of the specification: the inputs whose decoding must fail.

NotValidInteger(value) == ~(value.t = "num" /\ value.v.n = "PosInt")

BadDecimal(value) == value.t # "str" \/ ~ParseF64(value.v).some

MalformedEvent(e) ==
    \/ BadDecimal(Index(e, "price"))
    \/ IsText(Index(e, "type"), {T_trade}) /\ BadDecimal(Index(e, "amount"))

MalformedDoc(m) ==
    \/ Index(m, "events").t # "arr"
    \/ NotValidInteger(Index(m, "eventId"))
    \/ NotValidInteger(Index(m, "socket_sequence"))
    \/ \E k \in 1..Len(Index(m, "events").v) :
          MalformedEvent(Index(m, "events").v[k])

Malformed(raw) == ~FromSlice(raw).some \/ MalformedDoc(raw.v)

RemoveAt(s, k) == SubSeq(s, 1, k - 1) \o SubSeq(s, k + 1, Len(s))

\* the document of raw with its `events` array replaced
WithEvents(raw, evs) ==
    Json(JObj([key \in DOMAIN raw.v.v |->
                 IF key = "events" THEN JArr(evs) ELSE raw.v.v[key]]))

\* C7: if an element of `events` has a type string other than "trade" and
\* "change", then, whatever its other fields, it decodes to Event::Unknown
\* and the call succeeds with the other elements decoded as they are without
\* it (the rest of the message being well-formed).
C7_UnknownTypeTolerated ==
    pc = "decoded" /\ data.t = "json" /\ Index(data.v, "events").t = "arr" =>
        \A k \in 1..Len(WireEvents) :
            LET ty   == Index(WireEvents[k], "type")
                rest == EventNew(WithEvents(data, RemoveAt(WireEvents, k)))
            IN  (ty.t = "str" /\ ty.v \notin {T_trade, T_change} /\ rest.some)
                => /\ event.some
                   /\ event.v.events[k].tag = "Unknown"
                   /\ RemoveAt(event.v.events, k) = rest.v.events

\* C8: a frame whose decoding fails has none of its events processed: while
\* it is the frame being handled, the record is as it was when the frame
\* arrived and no report has been made for it.
C8_FailedDecodeProcessesNothing ==
    nrecv > 0 /\ data.t # "empty" /\ Malformed(data) =>
        /\ bbo = start.bbo
        /\ Len(sent) = start.nsent
        /\ applied = start.applied

\* the decoding failed on the third element of a batch whose first two
\* elements are well-formed, after an earlier frame had changed the book
C8_Witness ==
    /\ pc = "panicked"
    /\ panic = "decode"
    /\ start.bbo # BestBidOfferNew
    /\ start.nsent > 0
    /\ data.t = "json"
    /\ Len(WireEvents) = 3
    /\ DecodeEvent(WireEvents[1]).some
    /\ DecodeEvent(WireEvents[2]).some
    /\ ~DecodeEvent(WireEvents[3]).some

\* C9: a frame whose decoding fails does not stop the processing loop.
C9_LoopSurvivesBadMessage ==
    nrecv > 0 /\ data.t # "empty" /\ ~event.some => pc # "panicked"

\* C10: decoding fails whenever `events` is missing or no array, eventId or
\* socket_sequence is missing or no integer that fits u64, an element's price
\* is missing, no string or no decimal text, or a trade's amount is.
C10_MalformedFails ==
    pc = "decoded" /\ data.t = "json" /\ MalformedDoc(data.v) => ~event.some

\* the call has failed on a batch whose first element is well-formed and whose
\* second is a trade with a price and an amount that is no string
C10_Witness ==
    /\ pc = "decoded"
    /\ ~event.some
    /\ data.t = "json"
    /\ ~NotValidInteger(Index(data.v, "eventId"))
    /\ ~NotValidInteger(Index(data.v, "socket_sequence"))
    /\ Index(data.v, "events").t = "arr"
    /\ Len(WireEvents) = 2
    /\ DecodeEvent(WireEvents[1]).some
    /\ IsText(Index(WireEvents[2], "type"), {T_trade})
    /\ ~BadDecimal(Index(WireEvents[2], "price"))
    /\ Index(WireEvents[2], "amount").t = "num"

-----------------------------------------------------------------------------
\* the k-th wire element is a "change" with a price that parses
IsChangeWithPrice(e) ==
    IsText(Index(e, "type"), {T_change}) /\ ~BadDecimal(Index(e, "price"))

\* a wire field that is missing or no JSON string
NoText(value) == value.t # "str"

\* a wire field that is a JSON string which does not parse as f64
BadText(value) == value.t = "str" /\ ~ParseF64(value.v).some

\* the fields of a "change" element that have a default
OptionalKeys == {"reason", "remaining", "side", "delta"}

\* a field of an element of `events` that the JSON reader gets through: the
\* field lies three levels deep (the document, `events`, the element)
Accepted(value) == Reads(value, RecursionLimit - 3)

\* C11 as stated: in a "change" element with a valid price, each of reason,
\* remaining, side and delta that is missing or no JSON string takes its own
\* default (reason "", remaining 0.0, side Unknown, delta absent) whatever
\* the other three are, the call does not fail for it, and a delta of "0"
\* stays a present zero.
C11_OptionalDefaults ==
    pc = "decoded" /\ data.t = "json" /\ Index(data.v, "events").t = "arr" =>
        \A k \in 1..Len(WireEvents) :
            LET e    == WireEvents[k]
                rest == EventNew(WithEvents(data, RemoveAt(WireEvents, k)))
                q    == event.v.events[k]
            IN  (/\ IsChangeWithPrice(e)
                 /\ rest.some
                 /\ ~BadText(Index(e, "remaining"))
                 /\ ~BadText(Index(e, "delta")))
                => /\ event.some
                   /\ q.tag = "Quote"
                   /\ NoText(Index(e, "reason")) => q.reason = <<>>
                   /\ ~NoText(Index(e, "reason")) => q.reason = Index(e, "reason").v
                   /\ NoText(Index(e, "remaining")) => q.remaining = Zero
                   /\ ~NoText(Index(e, "remaining"))
                        => q.remaining = ParseF64(Index(e, "remaining").v).v
                   /\ NoText(Index(e, "side")) => q.side = "Unknown"
                   /\ IsText(Index(e, "side"), {T_bid}) => q.side = "Bid"
                   /\ NoText(Index(e, "delta")) => q.delta = None
                   /\ ~NoText(Index(e, "delta"))
                        => q.delta = Some(ParseF64(Index(e, "delta").v).v)

\* C11, amended: in a message that the JSON reader accepts, each of reason,
\* remaining, side and delta of a "change" element with a valid price that
\* is missing or no JSON string takes its own default (reason "", remaining
\* 0.0, side Unknown, delta absent) whatever the other three are, the call
\* does not fail for it, and a delta of "0" stays a present zero; one of the
\* four that the reader does not accept (a number out of the range of f64, a
\* value nested down to the reader's recursion limit) makes the call fail.
C11_AcceptedDefaults ==
    pc = "decoded" /\ data.t = "json" /\ Index(data.v, "events").t = "arr" =>
        \A k \in 1..Len(WireEvents) :
            LET e    == WireEvents[k]
                rest == EventNew(WithEvents(data, RemoveAt(WireEvents, k)))
                q    == event.v.events[k]
            IN  (/\ IsChangeWithPrice(e)
                 /\ rest.some
                 /\ ~BadText(Index(e, "remaining"))
                 /\ ~BadText(Index(e, "delta")))
                => /\ (\E key \in OptionalKeys : ~Accepted(Index(e, key)))
                        => ~event.some
                   /\ FromSlice(data).some =>
                        /\ event.some
                        /\ q.tag = "Quote"
                        /\ NoText(Index(e, "reason")) => q.reason = <<>>
                        /\ ~NoText(Index(e, "reason")) => q.reason = Index(e, "reason").v
                        /\ NoText(Index(e, "remaining")) => q.remaining = Zero
                        /\ ~NoText(Index(e, "remaining"))
                             => q.remaining = ParseF64(Index(e, "remaining").v).v
                        /\ NoText(Index(e, "side")) => q.side = "Unknown"
                        /\ IsText(Index(e, "side"), {T_bid}) => q.side = "Bid"
                        /\ NoText(Index(e, "delta")) => q.delta = None
                        /\ ~NoText(Index(e, "delta"))
                             => q.delta = Some(ParseF64(Index(e, "delta").v).v)

\* a "change" element whose reason is nested one level short of the limit,
\* whose remaining is a number and whose side is a boolean, and which has no
\* delta, has been decoded to the Quote of the defaults
C11_Witness ==
    /\ pc = "decoded"
    /\ event.some
    /\ data.t = "json"
    /\ Len(WireEvents) = 2
    /\ DOMAIN WireEvents[2].v = {"type", "price", "reason", "remaining", "side"}
    /\ WireEvents[2].v.reason.t = "nested"
    /\ ~Reads(JArr(<<WireEvents[2].v.reason>>), RecursionLimit - 3)
    /\ WireEvents[2].v.remaining.t = "num"
    /\ WireEvents[2].v.side.t = "bool"
    /\ event.v.events[2] = Quote(F_1_5, <<>>, Zero, "Unknown", None)

-----------------------------------------------------------------------------
\* a step in which Event::new was called
DecodeStep == nrecv' # nrecv /\ (pc' = "loop" \/ panic' = "decode")

\* the events of the current batch that the for loop has gone past
Processed == SubSeq(event.v.events, 1, i - 1)

\* the reports handed to stdout, and the Quotes matched, since the current
\* frame arrived
SentSinceStart == SubSeq(sent, start.nsent + 1, Len(sent))
AppliedSinceStart == SubSeq(applied, Len(start.applied) + 1, Len(applied))

RECURSIVE ReportKinds(_)
\* the kinds of the reports that a sequence of events calls for, in order
ReportKinds(evs) ==
    IF Len(evs) = 0 THEN <<>>
    ELSE (IF Head(evs).tag = "Trade" THEN <<"trade">>
          ELSE IF Head(evs).tag = "Quote" THEN <<"bbo">>
          ELSE <<>>) \o ReportKinds(Tail(evs))

KindsOf(reports) == [k \in 1..Len(reports) |-> reports[k].kind]

\* C12: a decode call gives the wire elements one for one and in wire order,
\* and the loop keeps that batch until the next call; the reports handed to stdout and the Quotes applied for the current
\* message are what the events before the loop's position call for, in their
\* order; and the loop is back at the stream only when every event of the
\* message is past.  (The order in which the pool writes the lines is not
\* part of this.)
C12_WireOrder ==
    /\ [][/\ (DecodeStep /\ event'.some) =>
               /\ Len(event'.v.events) = Len(WireEvents')
               /\ \A k \in 1..Len(WireEvents') :
                     DecodeEvent(WireEvents'[k]) = Some(event'.v.events[k])
          /\ ~DecodeStep => UNCHANGED <<data, event>>]_vars
    /\ [](event.some =>
        /\ KindsOf(SentSinceStart) = ReportKinds(Processed)
        /\ SelectSeq(SentSinceStart, LAMBDA r : r.kind = "trade")
             = [k \in 1..Len(SelectSeq(Processed, LAMBDA e : e.tag = "Trade")) |->
                  LET t == SelectSeq(Processed, LAMBDA e : e.tag = "Trade")[k]
                  IN  TradeMsg(t, MulF64(t.amount, t.price))]
        /\ pc \in {"loop", "recv", "done"} =>
              AppliedSinceStart = SelectSeq(Processed, LAMBDA e : e.tag = "Quote")
        /\ pc \in {"recv", "done"} => i = Len(event.v.events) + 1)

\* two messages of three events each have been processed to the end, and
\* the pool has written the second report of the first message before the
\* first
C12_Witness ==
    /\ pc = "recv"
    /\ nrecv = 2
    /\ event.some
    /\ Len(event.v.events) = 3
    /\ i = 4
    /\ start.nsent >= 2
    /\ Len(SentSinceStart) >= 2
    /\ \E k \in 1..3 : event.v.events[k].tag = "Trade"
    /\ Len(out) >= 3
    /\ sent[1].kind # sent[2].kind
    /\ out[2].kind = sent[2].kind /\ out[2] = sent[2]
    /\ out[3].kind = sent[1].kind /\ out[3] = sent[1]

-----------------------------------------------------------------------------
\* C14: an empty frame is passed over: the decoder is not called, nothing is
\* reported, the BestBidOffer and the last decoded batch stay as they were,
\* no failure is raised, and the loop is ready for the next frame.
C14_EmptyFrameSkipped ==
    [][\A k \in 1..Len(Feed) :
          (~Feed[k].err /\ Feed[k].raw.t = "empty" /\ Handle(Feed[k])) =>
              /\ pc' = "recv"
              /\ nrecv' = nrecv + 1
              /\ UNCHANGED <<data, event, i, bbo, lock, msg, sent, queued, out, panic,
                             applied, pre, start>>]_vars

\* one frame has been taken from the stream and it was empty: nothing was
\* decoded, nothing failed, and the loop waits for the next frame
C14_Witness ==
    /\ nrecv = 1
    /\ pc = "recv"
    /\ panic = ""
    /\ ~event.some
    /\ data.t = "empty"
    /\ sent = <<>>
    /\ \E k \in 1..Len(Feed) : ~Feed[k].err /\ Feed[k].raw.t = "empty"

-----------------------------------------------------------------------------
\* the await points of the loop's future: the poll of the stream and the
\* two awaited writes
Suspended == pc \in {"recv", "trade_write", "snap_write"}

\* the points at which the loop is about to take the mutex
Acquiring ==
    \/ pc = "snap"
    \/ InLoop /\ Cur.tag = "Quote" /\ Cur.side \in {"Ask", "Bid"}

\* C15: the loop holds the mutex exactly while it assigns the two fields
\* (the snapshot takes and drops it within one statement); the mutex is free
\* at every await point and whenever the loop is about to take it, so the
\* loop always gets it.
C15_LockDiscipline ==
    /\ lock = "main" <=> pc \in {"upd_price", "upd_remaining"}
    /\ Suspended => lock = "free"
    /\ Acquiring => lock = "free"
    /\ Acquiring => (ENABLED QuoteLock \/ ENABLED SnapshotFormat)

\* the loop has updated a side under the mutex and released it, and is at
\* the await of the snapshot's write, which it took the mutex again to copy
C15_Witness ==
    /\ pc = "snap_write"
    /\ lock = "free"
    /\ Cur.tag = "Quote"
    /\ Cur.side \in {"Ask", "Bid"}
    /\ Len(applied) > 0
    /\ bbo # pre
    /\ msg = BboMsg(bbo)

-----------------------------------------------------------------------------
\* every event of the current message has been processed: the loop is past
\* the last one, each Trade and Quote has its report and each Quote was
\* matched
FullyProcessed ==
    /\ i = Len(event.v.events) + 1
    /\ KindsOf(SentSinceStart) = ReportKinds(event.v.events)
    /\ AppliedSinceStart = SelectSeq(event.v.events, LAMBDA e : e.tag = "Quote")

\* C16: when the transport delivers finitely many well-formed frames and
\* then ends the stream, the loop comes to its end; it is back at the stream
\* only with every event of the message processed; and it ends only at the
\* stream, by the transport's end, with nothing of the last message left.
C16_Terminates ==
    /\ <>(pc = "done")
    /\ [](pc \in {"recv", "done"} /\ event.some => FullyProcessed)
    /\ [][pc' = "done" /\ pc # "done" => pc = "recv" /\ StreamEnd]_vars
    /\ [](panic = "")

\* the stream has ended after two messages with events, all processed
C16_Witness ==
    /\ pc = "done"
    /\ nrecv = 2
    /\ event.some
    /\ Len(event.v.events) = 3
    /\ FullyProcessed
    /\ start.nsent > 0
    /\ Len(sent) > start.nsent

-----------------------------------------------------------------------------
\* the loop is at an Event::Unknown of the batch
AtUnknown == InLoop /\ Cur.tag = "Unknown"

\* the events of the current batch that call for a report
Reportable == SelectSeq(event.v.events, LAMBDA e : e.tag \in {"Trade", "Quote"})

\* C17: while the loop is at an Event::Unknown no step changes a field of the
\* BestBidOffer or formats or hands over a report, and the loop's own step
\* moves to the next event; and when a decoded message has been processed
\* the number of reports handed to stdout for it is the number of its Trade
\* and Quote events.
C17_UnknownSkipped ==
    /\ [][AtUnknown =>
             /\ bbo' = bbo
             /\ sent' = sent
             /\ msg' = msg
             /\ applied' = applied
             /\ pc' = "loop"
             /\ i' # i => (i' = i + 1 /\ UNCHANGED <<lock, event, nrecv, panic>>)]_vars
    /\ [](pc \in {"recv", "done"} /\ event.some =>
             Len(sent) - start.nsent = Len(Reportable))

\* a message of three events, one of them an Event::Unknown, has been
\* processed and two reports were handed to stdout for it
C17_Witness ==
    /\ pc = "recv"
    /\ event.some
    /\ Len(event.v.events) = 3
    /\ i = 4
    /\ \E k \in 1..3 : event.v.events[k].tag = "Unknown"
    /\ Len(Reportable) = 2
    /\ Len(sent) - start.nsent = 2
    /\ bbo # start.bbo

-----------------------------------------------------------------------------
\* the wire element under the loop is a "change" of the given side whose
\* remaining is missing or is no JSON string
ChangeWithoutRemaining(side) ==
    /\ IsText(Index(WireCur, "type"), {T_change})
    /\ IsText(Index(WireCur, "side"), {side})
    /\ Index(WireCur, "remaining").t # "str"

\* the price the wire element carries
WirePrice == ParseF64(Index(WireCur, "price").v).v

\* C18: once the loop has applied a "change" of side "bid" (or "ask") whose
\* remaining is missing or not a JSON string, that side's remaining amount is
\* 0.0, whatever was stored before, and that side's price is the event's
\* price; the other side is as it was.
C18_MissingRemainingZeroes ==
    pc \in {"snap", "snap_write"} =>
        /\ ChangeWithoutRemaining(T_bid) =>
              /\ bbo.bid_amount_remaining = Zero
              /\ bbo.best_bid = WirePrice
              /\ bbo.best_offer = pre.best_offer
              /\ bbo.ask_amount_remaining = pre.ask_amount_remaining
              /\ pc = "snap_write" => msg = BboMsg(bbo)
        /\ ChangeWithoutRemaining(T_ask) =>
              /\ bbo.ask_amount_remaining = Zero
              /\ bbo.best_offer = WirePrice
              /\ bbo.best_bid = pre.best_bid
              /\ bbo.bid_amount_remaining = pre.bid_amount_remaining
              /\ pc = "snap_write" => msg = BboMsg(bbo)

\* an ask whose remaining is a JSON number has replaced a stored ask amount
\* that was not zero
C18_Witness ==
    /\ pc = "snap_write"
    /\ ChangeWithoutRemaining(T_ask)
    /\ Index(WireCur, "remaining").t = "num"
    /\ pre.ask_amount_remaining = F_0_8
    /\ bbo.ask_amount_remaining = Zero
    /\ bbo.best_offer = Normalize(FALSE, 9, 0)

-----------------------------------------------------------------------------
\* a "change" element whose remaining or delta is a JSON string that does
\* not parse as f64
ChangeWithBadText(e) ==
    /\ IsText(Index(e, "type"), {T_change})
    /\ BadText(Index(e, "remaining")) \/ BadText(Index(e, "delta"))

\* C19: a decode call whose `events` holds a "change" element with a
\* remaining or a delta that is a JSON string but no decimal, or an element
\* whose type is missing or no JSON string, fails: no MarketMessage is
\* returned, no default is put in and no Event::Unknown is made of it.
C19_BadOptionalFails ==
    pc = "decoded" /\ data.t = "json" /\ Index(data.v, "events").t = "arr" =>
        \A k \in 1..Len(WireEvents) :
            (\/ ChangeWithBadText(WireEvents[k])
             \/ NoText(Index(WireEvents[k], "type")))
            => ~event.some

\* the call failed on a batch whose only defect is the delta "abc" of a
\* "change" element that is well-formed otherwise
C19_Witness ==
    /\ pc = "decoded"
    /\ ~event.some
    /\ data.t = "json"
    /\ Index(data.v, "events").t = "arr"
    /\ Len(WireEvents) = 2
    /\ \E k \in 1..2 :
          /\ IsChangeWithPrice(WireEvents[k])
          /\ IsText(Index(WireEvents[k], "delta"), {T_abc})
          /\ IsText(Index(WireEvents[k], "remaining"), {T_4})
          /\ EventNew(WithEvents(data, RemoveAt(WireEvents, k))).some

-----------------------------------------------------------------------------
SeqValue == Index(data.v, "socket_sequence")
IdValue == Index(data.v, "eventId")

\* the wire value is a non-negative integer literal
IsWireNat(value) ==
    /\ value.t = "num"
    /\ value.v.n = "PosInt" \/ (value.v.n = "Float" /\ Len(value.v.limbs) > 0)

\* the wire value is a non-negative integer below 2^64
FitsU64(value) == value.t = "num" /\ value.v.n = "PosInt"

\* the wire value is a negative number or one with a fraction or exponent
NegativeOrNonInteger(value) ==
    /\ value.t = "num"
    /\ value.v.n = "NegInt" \/ (value.v.n = "Float" /\ Len(value.v.limbs) = 0)

\* the wire value is an integer of 2^64 or more
Beyond64(value) == value.t = "num" /\ value.v.n = "Float" /\ Len(value.v.limbs) > 4

\* the value of the limbs modulo 2^32, in 16-bit limbs
Mod2_32(limbs) == <<limbs[1], limbs[2]>>

\* the reader accepts the document and `events` decodes
EventsDecode ==
    /\ FromSlice(data).some
    /\ Index(data.v, "events").t = "arr"
    /\ DecodeEvents(Index(data.v, "events").v).some

\* C20 as stated: every non-negative integer socket_sequence decodes, to its
\* value modulo 2^32, and a negative or non-integer socket_sequence or
\* eventId fails.
C20_AnyIntegerTruncated ==
    pc = "decoded" /\ data.t = "json" =>
        /\ (IsWireNat(SeqValue) /\ FitsU64(IdValue) /\ EventsDecode) =>
              /\ event.some
              /\ event.v.socket_sequence = Mod2_32(SeqValue.v.limbs)
        /\ (NegativeOrNonInteger(SeqValue) \/ NegativeOrNonInteger(IdValue)) =>
              ~event.some

\* C20, amended: a socket_sequence that is a non-negative integer below 2^64
\* decodes, also when it is 2^32 or more, to its value modulo 2^32 (and the
\* eventId is kept whole); a socket_sequence or eventId that is negative, no
\* integer, or an integer of 2^64 or more fails.
C20_U64Truncated ==
    pc = "decoded" /\ data.t = "json" =>
        /\ (FitsU64(SeqValue) /\ FitsU64(IdValue) /\ EventsDecode) =>
              /\ event.some
              /\ event.v.socket_sequence = Mod2_32(SeqValue.v.limbs)
              /\ event.v.event_id = IdValue.v.limbs
        /\ (\/ NegativeOrNonInteger(SeqValue) \/ NegativeOrNonInteger(IdValue)
            \/ Beyond64(SeqValue) \/ Beyond64(IdValue)) =>
              ~event.some

\* a socket_sequence of 2^32 + 5 has been decoded to 5
C20_Witness ==
    /\ pc = "decoded"
    /\ event.some
    /\ FitsU64(SeqValue)
    /\ SeqValue.v.limbs = <<5, 0, 1, 0>>
    /\ event.v.socket_sequence = <<5, 0>>
    /\ Len(event.v.events) = 2
====
